---- MODULE Spec2Model ----
(***************************************************************************)
(* Model of GameVideoAnalyzer (src/game_video.cpp): the hero tracker       *)
(* (assign_hero, delete_inactive_heroes), the digit-composition loop of    *)
(* track_hero and the frame loop of main that drives them.                 *)
(*                                                                         *)
(* The image-processing front end of track_hero (lines 336-400) is an      *)
(* external source of digit readings: its result, rect_num_vec, is the     *)
(* input of the composition loop and is drawn from bounded sets.           *)
(***************************************************************************)
EXTENDS Integers, Sequences, FiniteSets

VARIABLES
    heroes_list_,                 \* std::vector<HeroStatus>
    last_updated_,                \* std::vector<int>, parallel to heroes_list_
    appearances_,                 \* std::vector<int>, parallel to heroes_list_
    hero_id_,                     \* current unoccupied hero id
    is_heroes_list_initialized_,  \* false until the first track_hero returns
    hero_status_list,             \* the hero list of the frame processed last
    rect_num_vec,                 \* the digit readings of the frame processed last
    now,                          \* timestamp (ms) of the frame processed last
    frames,                       \* number of frames processed so far
    readings,                     \* number of digit readings processed so far
    pc,                           \* position in the frame loop of main
    \* history variables (not program state)
    op,                           \* the operation executed last, with its arguments
    prev,                         \* the tracker as it was before that operation
    calls,                        \* the assign_hero calls of the frame processed last
    assigned,                     \* every identity handed out before that operation
    oob_read,                     \* the last delete_inactive_heroes read past the end
    seen,                         \* per identity: when and how often a frame reported it
    \* detect_number_roi: its arguments and the value it returned
    src_roi,                      \* (*src)(box), a binary bitmap
    number_samples,               \* the ten digit bitmaps, indexed 0..9
    avg_err_thres,                \* the error threshold, a fraction
    number_detected,              \* the return value
    \* joystick statistic
    dist_list_,                   \* std::vector<double>, in units of 1 / Scale
    mean,                         \* main's double mean, a fraction
    stdvar                        \* main's double stdvar, its square as a fraction

vars == <<heroes_list_, last_updated_, appearances_, hero_id_,
          is_heroes_list_initialized_, hero_status_list, rect_num_vec, now,
          frames, readings, pc, op, prev, calls, assigned, oob_read, seen,
          src_roi, number_samples, avg_err_thres, number_detected,
          dist_list_, mean, stdvar>>

trackVars == <<heroes_list_, last_updated_, appearances_, hero_id_,
               is_heroes_list_initialized_, hero_status_list, rect_num_vec,
               now, frames, readings, op, prev, calls, assigned, oob_read, seen>>

detectVars == <<src_roi, number_samples, avg_err_thres, number_detected>>

jsVars == <<dist_list_, mean, stdvar>>

----------------------------------------------------------------------------
(* Program constants *)

DistThreshold == 20      \* double dist_min = 20
StaleWindow == 3000      \* ts - last_updated_[i_min] > 3000
MaxLevel == 15           \* hero_level <= 15
PairDy == 3              \* abs(p1.y - p2.y) < 3
PairDxHigh == 15         \* abs(p1.x - p2.x) < 15
PairDxLow == 8           \* abs(p1.x - p2.x) > 8
NoIndex == 0 - 1         \* int i_min = -1

(* Bounds of the model *)

MaxFrames == 3           \* frames processed by the frame loop
MaxReadings == 3         \* digit readings in all frames of the frame loop
MaxVaried == 1
MaxDistances == 3
MaxDigits == 3           \* digit readings in a composition-only frame

----------------------------------------------------------------------------
(* Helpers *)

Abs(n) == IF n < 0 THEN 0 - n ELSE n

Point(px, py) == [x |-> px, y |-> py]

\* std::vector::erase(begin() + i) with a 0-based i
EraseAt(s, i) == [k \in 1..(Len(s) - 1) |-> IF k <= i THEN s[k] ELSE s[k + 1]]

\* The tracker: the five members that assign_hero and delete_inactive_heroes use.
Tracker(hl, lu, ap, id, init) ==
    [heroes_list_ |-> hl, last_updated_ |-> lu, appearances_ |-> ap,
     hero_id_ |-> id, is_heroes_list_initialized_ |-> init]

CurrentTracker ==
    Tracker(heroes_list_, last_updated_, appearances_, hero_id_,
            is_heroes_list_initialized_)

\* GameVideoAnalyzer::GameVideoAnalyzer()
FreshTracker == Tracker(<<>>, <<>>, <<>>, 0, FALSE)

HeroStatus(id, position, level) ==
    [hero_id |-> id, position |-> position, level |-> level]

----------------------------------------------------------------------------
(* assign_hero *)

\* pow(position.x - q.x, 2) + pow(position.y - q.y, 2): the square of dist.
\* sqrt is monotonic and exact on 400, so dist < dist_min is compared on squares.
DistSq(p, q) == (p.x - q.x) * (p.x - q.x) + (p.y - q.y) * (p.y - q.y)

\* Variant: an entity at the same distance as the nearest so far replaces it.
RECURSIVE NearestFrom_LastOnTie(_, _, _, _, _)
NearestFrom_LastOnTie(hl, position, i, dist_min_sq, i_min) ==
    IF i >= Len(hl) THEN i_min
    ELSE LET d == DistSq(position, hl[i + 1].position)
         IN  IF d <= dist_min_sq /\ d < DistThreshold * DistThreshold
             THEN NearestFrom_LastOnTie(hl, position, i + 1, d, i)
             ELSE NearestFrom_LastOnTie(hl, position, i + 1, dist_min_sq, i_min)

Nearest_LastOnTie(hl, position) ==
    NearestFrom_LastOnTie(hl, position, 0, DistThreshold * DistThreshold, NoIndex)

\* The nearest-hero loop, from 0-based index i on; returns the 0-based i_min.
RECURSIVE NearestFrom(_, _, _, _, _)
NearestFrom(hl, position, i, dist_min_sq, i_min) ==
    IF i >= Len(hl) THEN i_min
    ELSE LET d == DistSq(position, hl[i + 1].position)
         IN  IF d < dist_min_sq
             THEN NearestFrom(hl, position, i + 1, d, i)
             ELSE NearestFrom(hl, position, i + 1, dist_min_sq, i_min)

Nearest(hl, position) ==
    NearestFrom(hl, position, 0, DistThreshold * DistThreshold, NoIndex)

\* Variant: an entity seen exactly 3000 ms ago is stale too.
IsNewHero_StaleAtWindow(T, i_min, level, ts) ==
    \/ i_min = NoIndex
    \/ (i_min # NoIndex /\ ts - T.last_updated_[i_min + 1] >= StaleWindow)
    \/ (i_min # NoIndex /\ level < T.heroes_list_[i_min + 1].level)

\* Variant: no entity is ever stale.
IsNewHero_NeverStale(T, i_min, level, ts) ==
    \/ i_min = NoIndex
    \/ (i_min # NoIndex /\ level < T.heroes_list_[i_min + 1].level)

\* The first condition of the if-chain: a new hero.
IsNewHero(T, i_min, level, ts) ==
    \/ i_min = NoIndex
    \/ (i_min # NoIndex /\ ts - T.last_updated_[i_min + 1] > StaleWindow)
    \/ (i_min # NoIndex /\ level < T.heroes_list_[i_min + 1].level)

\* Variant: hero_id_ is not incremented.
NewHero_SameId(T, level, position, hsl, ts) ==
    LET hero == HeroStatus(T.hero_id_, position, level)
    IN  [T |-> Tracker(Append(T.heroes_list_, hero),
                       Append(T.last_updated_, ts),
                       Append(T.appearances_, 1),
                       T.hero_id_,
                       T.is_heroes_list_initialized_),
         hsl |-> Append(hsl, hero)]

\* HeroStatus hero = {hero_id_++, position, level}; and the four push_backs
NewHero(T, level, position, hsl, ts) ==
    LET hero == HeroStatus(T.hero_id_, position, level)
    IN  [T |-> Tracker(Append(T.heroes_list_, hero),
                       Append(T.last_updated_, ts),
                       Append(T.appearances_, 1),
                       T.hero_id_ + 1,
                       T.is_heroes_list_initialized_),
         hsl |-> Append(hsl, hero)]

\* Variant: the timestamp is taken from the first entry of last_updated_.
MergeHero_StampOfFirst(T, i_min, level, position, hsl, ts) ==
    LET k == i_min + 1
        hero == HeroStatus(T.heroes_list_[k].hero_id, position, level)
        merged == IF level = T.heroes_list_[k].level
                  THEN [T.heroes_list_[k] EXCEPT !.position = position]
                  ELSE [T.heroes_list_[k] EXCEPT !.position = position,
                                                 !.level = level]
    IN  [T |-> Tracker([T.heroes_list_ EXCEPT ![k] = merged],
                       [T.last_updated_ EXCEPT ![k] = T.last_updated_[1]],
                       [T.appearances_ EXCEPT ![k] = @ + 1],
                       T.hero_id_,
                       T.is_heroes_list_initialized_),
         hsl |-> Append(hsl, hero)]

\* The two merge branches: an existing hero, its level kept or raised by one.
MergeHero(T, i_min, level, position, hsl, ts) ==
    LET k == i_min + 1
        hero == HeroStatus(T.heroes_list_[k].hero_id, position, level)
        merged == IF level = T.heroes_list_[k].level
                  THEN [T.heroes_list_[k] EXCEPT !.position = position]
                  ELSE [T.heroes_list_[k] EXCEPT !.position = position,
                                                 !.level = level]
    IN  [T |-> Tracker([T.heroes_list_ EXCEPT ![k] = merged],
                       [T.last_updated_ EXCEPT ![k] = ts],
                       [T.appearances_ EXCEPT ![k] = @ + 1],
                       T.hero_id_,
                       T.is_heroes_list_initialized_),
         hsl |-> Append(hsl, hero)]

\* Variant: a level jump of more than 1 is merged as well.
assign_hero_MergeOnJump(T, level, position, hsl, ts) ==
    IF T.is_heroes_list_initialized_ = FALSE
    THEN NewHero(T, level, position, hsl, ts)
    ELSE LET i_min == Nearest(T.heroes_list_, position)
         IN  IF IsNewHero(T, i_min, level, ts)
             THEN NewHero(T, level, position, hsl, ts)
             ELSE MergeHero(T, i_min, level, position, hsl, ts)

assign_hero(T, level, position, hsl, ts) ==
    IF T.is_heroes_list_initialized_ = FALSE
    THEN NewHero(T, level, position, hsl, ts)
    ELSE LET i_min == Nearest(T.heroes_list_, position)
         IN  IF IsNewHero(T, i_min, level, ts)
             THEN NewHero(T, level, position, hsl, ts)
             ELSE IF level = T.heroes_list_[i_min + 1].level
             THEN MergeHero(T, i_min, level, position, hsl, ts)
             ELSE IF level = T.heroes_list_[i_min + 1].level + 1
             THEN MergeHero(T, i_min, level, position, hsl, ts)
             ELSE NewHero(T, level, position, hsl, ts)

----------------------------------------------------------------------------
(* track_hero: the loop that detects numbers in the same level icon *)

\* A digit reading: std::pair<cv::Point, int>
Reading(position, digit) == [first |-> position, second |-> digit]

\* Two digits belong to the same level icon.
IsPair(p1, p2) ==
    /\ Abs(p1.y - p2.y) < PairDy
    /\ Abs(p1.x - p2.x) < PairDxHigh
    /\ Abs(p1.x - p2.x) > PairDxLow

\* Variant: the reading with the larger x supplies the tens digit.
HeroLevel_RightIsTens(p1, num1, p2, num2) ==
    IF p1.x > p2.x THEN num2 + 10 * num1 ELSE num1 + 10 * num2

\* int hero_level = (p1.x > p2.x) ? num1 + 10 * num2 : num2 + 10 * num1;
HeroLevel(p1, num1, p2, num2) ==
    IF p1.x > p2.x THEN num1 + 10 * num2 ELSE num2 + 10 * num1

\* p1.x > p2.x ? p1 : p2
Anchor(p1, p2) == IF p1.x > p2.x THEN p1 ELSE p2

\* The inner loop over j (0-based): the first j that makes a valid level with i,
\* or NoIndex when the loop runs to its end.
RECURSIVE PairFrom(_, _, _)
PairFrom(rv, i, j) ==
    IF j >= Len(rv) THEN NoIndex
    ELSE IF /\ IsPair(rv[i + 1].first, rv[j + 1].first)
            /\ HeroLevel(rv[i + 1].first, rv[i + 1].second,
                         rv[j + 1].first, rv[j + 1].second) <= MaxLevel
         THEN j
         ELSE PairFrom(rv, i, j + 1)

\* One assign_hero call made by the loop, recorded with the readings (1-based
\* indices of rect_num_vec) it was made from and the tracker before and after.
Call(S, level, position, ts, src) ==
    LET r == assign_hero(S.T, level, position, S.hsl, ts)
    IN  [T |-> r.T, hsl |-> r.hsl,
         calls |-> Append(S.calls,
                          [level |-> level, position |-> position, ts |-> ts,
                           src |-> src, pre |-> S.T, post |-> r.T,
                           hsl_pre |-> S.hsl, hsl_post |-> r.hsl])]

\* The outer loop over i (0-based). S = [T, hsl, calls]; single = is_single_digit.
RECURSIVE ComposeFrom(_, _, _, _, _)
ComposeFrom(S, rv, single, i, ts) ==
    IF i >= Len(rv) THEN S
    ELSE IF ~single[i + 1] THEN ComposeFrom(S, rv, single, i + 1, ts)
    ELSE LET p1 == rv[i + 1].first
             num1 == rv[i + 1].second
             j == PairFrom(rv, i, i + 1)
         IN  IF j # NoIndex
             THEN LET p2 == rv[j + 1].first
                      num2 == rv[j + 1].second
                  IN  ComposeFrom(Call(S, HeroLevel(p1, num1, p2, num2),
                                       Anchor(p1, p2), ts, {i + 1, j + 1}),
                                  rv,
                                  [single EXCEPT ![i + 1] = FALSE, ![j + 1] = FALSE],
                                  i + 1, ts)
             ELSE IF num1 > 0
             THEN ComposeFrom(Call(S, num1, p1, ts, {i + 1}), rv, single, i + 1, ts)
             ELSE ComposeFrom(S, rv, single, i + 1, ts)

\* track_hero from the composition loop on: the loop, then the initialized flag.
track_hero(T, rv, hsl, ts) ==
    LET S == ComposeFrom([T |-> T, hsl |-> hsl, calls |-> <<>>], rv,
                         [k \in 1..Len(rv) |-> TRUE], 0, ts)
    IN  [S EXCEPT !.T.is_heroes_list_initialized_ = TRUE]

----------------------------------------------------------------------------
(* delete_inactive_heroes *)

\* Variant: the number of appearances is not looked at.
IsInactive_AnyCount(ts, last_updated, appearances, inactive_time, num_app) ==
    ts - last_updated > inactive_time

\* (ts - last_updated_[i] > inactive_time) && (appearances_[i] < num_app)
IsInactive(ts, last_updated, appearances, inactive_time, num_app) ==
    (ts - last_updated > inactive_time) /\ (appearances < num_app)

\* Variant: last_updated_ loses its first element instead of element i.
EraseHero_FirstStamp(T, i) ==
    [T EXCEPT !.heroes_list_ = EraseAt(@, i),
              !.last_updated_ = EraseAt(@, 0),
              !.appearances_ = EraseAt(@, i)]

\* The three erase calls at the 0-based index i.
EraseHero(T, i) ==
    [T EXCEPT !.heroes_list_ = EraseAt(@, i),
              !.last_updated_ = EraseAt(@, i),
              !.appearances_ = EraseAt(@, i)]

\* The loop over i (0-based). D = [T, oob]: oob records that the message printed
\* after an erase read index i of the lists when i was no longer below their size
\* (the read has no effect on the tracker).
RECURSIVE DeleteFrom(_, _, _, _, _)
DeleteFrom(D, i, ts, inactive_time, num_app) ==
    IF i >= Len(D.T.heroes_list_) THEN D
    ELSE IF IsInactive(ts, D.T.last_updated_[i + 1], D.T.appearances_[i + 1],
                       inactive_time, num_app)
         THEN LET T2 == EraseHero(D.T, i)
              IN  DeleteFrom([T |-> T2,
                              oob |-> D.oob \/ i >= Len(T2.heroes_list_)],
                             i + 1, ts, inactive_time, num_app)
         ELSE DeleteFrom(D, i + 1, ts, inactive_time, num_app)

delete_inactive_heroes(T, ts, inactive_time, num_app) ==
    DeleteFrom([T |-> T, oob |-> FALSE], 0, ts, inactive_time, num_app)

----------------------------------------------------------------------------
(* Inputs *)

----------------------------------------------------------------------------
(* detect_number_roi, lines 115-165 *)

NumSamples == 10         \* for (size_t i = 0; i < 10; i++)

\* A cv::Mat of type CV_8UC1: data holds the pixels row by row.
Bitmap(rows, cols, data) == [rows |-> rows, cols |-> cols, data |-> data]

\* at<uchar>(iy, ix), both 0-based.
At(b, iy, ix) == b.data[iy * b.cols + ix + 1]

\* A fraction with a positive denominator, and the order of two of them.
Frac(num, den) == [num |-> num, den |-> den]

Less(a, b) == a.num * b.den < b.num * a.den

\* The h/w ratio test: hw_ratio_roi / hw_ratio_sample is
\* (roi.rows * sample.cols) / (roi.cols * sample.rows); > 1.2 or < 0.8.
RatioRejected(roi, sample) ==
    \/ 5 * roi.rows * sample.cols > 6 * roi.cols * sample.rows
    \/ 5 * roi.rows * sample.cols < 4 * roi.cols * sample.rows

\* cv::resize with INTER_NEAREST: the pixel (iy, ix) of the result is the pixel
\* (floor(iy * b.rows / rows), floor(ix * b.cols / cols)) of b.
Resize(b, rows, cols) ==
    Bitmap(rows, cols,
           [n \in 1..(rows * cols) |->
               LET iy == (n - 1) \div cols
                   ix == (n - 1) % cols
               IN  At(b, (iy * b.rows) \div rows, (ix * b.cols) \div cols)])

\* avg_err of a resized region against a sample of the same size: a pixel
\* counts when one is 0xff and the other 0.
AvgErr(roi, sample) ==
    Frac(Cardinality({n \in DOMAIN sample.data :
                         \/ roi.data[n] = 255 /\ sample.data[n] = 0
                         \/ roi.data[n] = 0 /\ sample.data[n] = 255}),
         roi.cols * roi.rows)

\* Variant of the loop: a score that is not larger replaces the current best.
RECURSIVE DetectFrom_LastOnTie(_, _, _, _, _)
DetectFrom_LastOnTie(roi, samples, i, min_avg_err, detected) ==
    IF i >= NumSamples THEN detected
    ELSE IF RatioRejected(roi, samples[i])
         THEN DetectFrom_LastOnTie(roi, samples, i + 1, min_avg_err, detected)
         ELSE LET avg_err == AvgErr(Resize(roi, samples[i].rows, samples[i].cols),
                                    samples[i])
              IN  IF ~Less(min_avg_err, avg_err)
                  THEN DetectFrom_LastOnTie(roi, samples, i + 1, avg_err, i)
                  ELSE DetectFrom_LastOnTie(roi, samples, i + 1, min_avg_err,
                                            detected)

detect_number_roi_LastOnTie(roi, samples, thres) ==
    DetectFrom_LastOnTie(roi, samples, 0, thres, NoIndex)

\* The loop over the ten samples from index i on.
RECURSIVE DetectFrom(_, _, _, _, _)
DetectFrom(roi, samples, i, min_avg_err, detected) ==
    IF i >= NumSamples THEN detected
    ELSE IF RatioRejected(roi, samples[i])
         THEN DetectFrom(roi, samples, i + 1, min_avg_err, detected)
         ELSE LET avg_err == AvgErr(Resize(roi, samples[i].rows, samples[i].cols),
                                    samples[i])
              IN  IF Less(avg_err, min_avg_err)
                  THEN DetectFrom(roi, samples, i + 1, avg_err, i)
                  ELSE DetectFrom(roi, samples, i + 1, min_avg_err, detected)

detect_number_roi(roi, samples, thres) ==
    DetectFrom(roi, samples, 0, thres, NoIndex)

----------------------------------------------------------------------------
(* estimate_joystick_angle, lines 218-235, and estimate_js_axis_status,      *)
(* lines 237-248. A double is a fraction of a fixed grid: a distance is a    *)
(* whole number of units of 1 / Scale.                                       *)

Scale == 10

\* The largest r with r * r <= n.
RECURSIVE SqrtFrom(_, _)
SqrtFrom(n, r) == IF (r + 1) * (r + 1) > n THEN r ELSE SqrtFrom(n, r + 1)

\* sqrt(pow(dx, 2) + pow(dy, 2)), rounded to the grid.
Distance(dx, dy) == SqrtFrom(Scale * Scale * (dx * dx + dy * dy), 0)

\* std::accumulate(begin, end, 0): the accumulator is an int, so every partial
\* sum acc + x is converted to int, which drops the fraction of x.
RECURSIVE Accumulate(_, _, _)
Accumulate(list, i, acc) ==
    IF i > Len(list) THEN acc
    ELSE Accumulate(list, i + 1, (acc * Scale + list[i]) \div Scale)

\* The sum of the list with nothing dropped, in units of 1 / Scale.
RECURSIVE SumExact(_, _, _)
SumExact(list, i, acc) ==
    IF i > Len(list) THEN acc ELSE SumExact(list, i + 1, acc + list[i])

\* err_sum for the mean p / n, as the numerator over (Scale * n)^2.
RECURSIVE ErrSum(_, _, _, _)
ErrSum(list, i, p, acc) ==
    IF i > Len(list) THEN acc
    ELSE LET e == Len(list) * list[i] - Scale * p
         IN  ErrSum(list, i + 1, p, acc + e * e)

\* The two results: mean, and the square of stdvar; a denominator of 0 is the
\* division by size() - 1 = 0 of a list of one distance.
estimate_js_axis_status(list) ==
    LET n == Len(list)
        p == Accumulate(list, 1, 0)
    IN  [mean |-> [num |-> p, den |-> n, set |-> TRUE],
         stdvar |-> [num |-> ErrSum(list, 1, p, 0),
                     den |-> Scale * Scale * n * n * (n - 1), set |-> TRUE]]

----------------------------------------------------------------------------
(* Inputs *)

\* Positions of digit readings in the frame loop, on a line: neighbours are
\* 10 px apart and form a pair; (100,100) and (120,100) are exactly 20 px apart
\* and (110,100) is at the same distance from both.
TrackPoints == {Point(100, 100), Point(110, 100), Point(120, 100)}
TrackDigits == {1, 5, 6}

\* Positions of digit readings in a composition-only frame: three on a line 10 px
\* apart, and (18,7), which is 8 px from (10,5), 2 px from (20,5) and 12 px from
\* (30,5).
ComposePoints == {Point(10, 5), Point(20, 5), Point(30, 5), Point(18, 7)}
ComposeDigits == 0..9

\* Lists of at most n readings at distinct positions (one reading per contour).
ReadingLists(points, digits, n) ==
    UNION {{rv \in [1..m -> {Reading(p, d) : p \in points, d \in digits}] :
               \A a, b \in 1..m : a # b => rv[a].first # rv[b].first} : m \in 0..n}

\* Time between two frames, ms: two gaps of 1500 make the 3000 of the stale
\* window, 3001 exceeds it.
Deltas == {1500, 3001}

\* Arguments <<inactive_time, num_app>> of delete_inactive_heroes. main passes
\* 1000 and 5; here the window is one frame gap and the floor is 2, which a
\* tracked entity reaches within MaxFrames frames.
DeleteArgs == {<<1500, 2>>}

\* Regions handed to detect_number_roi: binarized, 2x2, 1x2 and 1x1.
Rois ==
    {Bitmap(2, 2, <<0, 0, 0, 0>>), Bitmap(2, 2, <<255, 255, 0, 0>>),
     Bitmap(2, 2, <<255, 0, 0, 0>>), Bitmap(2, 2, <<0, 255, 255, 0>>),
     Bitmap(2, 2, <<255, 255, 255, 255>>), Bitmap(1, 2, <<0, 255>>),
     Bitmap(1, 2, <<255, 255>>), Bitmap(1, 1, <<255>>)}

\* Digit bitmaps as imread hands them over (grey levels are possible): 2x2,
\* 1x1 (the same h/w ratio) and 1x2 (half the h/w ratio).
SampleBitmaps ==
    {Bitmap(2, 2, <<0, 0, 0, 0>>), Bitmap(2, 2, <<255, 255, 0, 0>>),
     Bitmap(2, 2, <<255, 128, 0, 0>>), Bitmap(1, 1, <<255>>),
     Bitmap(1, 2, <<0, 255>>)}

\* The sample sets: one bitmap at all ten indices but at most MaxVaried.
SampleSets ==
    UNION {UNION {{[i \in 0..(NumSamples - 1) |-> IF i \in V THEN f[i] ELSE filler] :
                      f \in [V -> SampleBitmaps]} :
                  V \in {W \in SUBSET (0..(NumSamples - 1)) :
                            Cardinality(W) <= MaxVaried}} :
           filler \in SampleBitmaps}

\* 0.3 and 0.99 are the thresholds of main; 0.5 is a score a 2x2 region has.
Thresholds == {Frac(3, 10), Frac(1, 2), Frac(99, 100)}

\* Centre of the first circle relative to joystick_axis_, in pixels.
CircleOffsets == {<<3, 0>>, <<4, 0>>, <<3, 4>>, <<1, 1>>, <<1, 2>>}

----------------------------------------------------------------------------
(* The state machine *)

\* Nothing has been classified, no distance recorded; main's mean and stdvar
\* are not initialized.
DetectIdle ==
    /\ src_roi = Bitmap(0, 0, <<>>)
    /\ number_samples = <<>>
    /\ avg_err_thres = Frac(0, 1)
    /\ number_detected = NoIndex

JsIdle ==
    /\ dist_list_ = <<>>
    /\ mean = [num |-> 0, den |-> 0, set |-> FALSE]
    /\ stdvar = [num |-> 0, den |-> 0, set |-> FALSE]

Init ==
    /\ heroes_list_ = <<>>
    /\ last_updated_ = <<>>
    /\ appearances_ = <<>>
    /\ hero_id_ = 0
    /\ is_heroes_list_initialized_ = FALSE
    /\ hero_status_list = <<>>
    /\ rect_num_vec = <<>>
    /\ now = 0
    /\ frames = 0
    /\ readings = 0
    /\ pc = "track_hero"
    /\ op = [name |-> "init"]
    /\ prev = FreshTracker
    /\ calls = <<>>
    /\ assigned = {}
    /\ oob_read = FALSE
    /\ seen = <<>>
    /\ DetectIdle
    /\ JsIdle

\* Identities held by the tracker T.
Ids(T) == {T.heroes_list_[k].hero_id : k \in DOMAIN T.heroes_list_}

SetTracker(T) ==
    /\ heroes_list_' = T.heroes_list_
    /\ last_updated_' = T.last_updated_
    /\ appearances_' = T.appearances_
    /\ hero_id_' = T.hero_id_
    /\ is_heroes_list_initialized_' = T.is_heroes_list_initialized_

\* The record of the snapshots of a frame: hsl is the frame's hero list, ts its
\* timestamp. Kept from what the frame reports, not from the tracker's lists.
Report(old, hsl, ts) ==
    LET ids == {hsl[n].hero_id : n \in DOMAIN hsl}
        times(id) == Cardinality({n \in DOMAIN hsl : hsl[n].hero_id = id})
    IN  [id \in DOMAIN old \cup ids |->
            IF id \in ids
            THEN [last |-> ts,
                  app |-> (IF id \in DOMAIN old THEN old[id].app ELSE 0) + times(id)]
            ELSE old[id]]

\* One call of track_hero on the readings rv at timestamp ts, with the fresh
\* hero_status_list that main hands it.
TrackHeroCall(rv, ts) ==
    LET r == track_hero(CurrentTracker, rv, <<>>, ts)
    IN  /\ SetTracker(r.T)
        /\ hero_status_list' = r.hsl
        /\ rect_num_vec' = rv
        /\ now' = ts
        /\ frames' = frames + 1
        /\ readings' = readings + Len(rv)
        /\ op' = [name |-> "track_hero", ts |-> ts]
        /\ prev' = CurrentTracker
        /\ calls' = r.calls
        /\ assigned' = assigned \cup Ids(CurrentTracker)
        /\ oob_read' = FALSE
        /\ seen' = Report(seen, r.hsl, ts)
        /\ UNCHANGED <<detectVars, jsVars>>

\* main, line 592: the next frame. The first frame is the origin of time.
TrackHero ==
    /\ pc = "track_hero"
    /\ frames < MaxFrames
    /\ \E rv \in ReadingLists(TrackPoints, TrackDigits, MaxReadings - readings) :
       \E d \in (IF frames = 0 THEN {0} ELSE Deltas) :
          TrackHeroCall(rv, now + d)
    /\ pc' = "delete_inactive_heroes"

\* main, line 596: prune heroes list, at the timestamp of the frame.
DeleteInactiveHeroes ==
    /\ pc = "delete_inactive_heroes"
    /\ \E args \in DeleteArgs :
          LET r == delete_inactive_heroes(CurrentTracker, now, args[1], args[2])
          IN  /\ SetTracker(r.T)
              /\ oob_read' = r.oob
              /\ op' = [name |-> "delete_inactive_heroes", ts |-> now,
                        inactive_time |-> args[1], num_app |-> args[2]]
    /\ prev' = CurrentTracker
    /\ assigned' = assigned \cup Ids(CurrentTracker)
    /\ pc' = "track_hero"
    /\ UNCHANGED <<hero_status_list, rect_num_vec, now, frames, readings, calls,
                   seen, detectVars, jsVars>>

\* The other outcome of a delete_inactive_heroes call whose message (line 468)
\* reads heroes_list_[i], last_updated_[i] and appearances_[i] at i = size():
\* the behaviour is undefined; a build with checked operator[] ends the process
\* there, any other prints what the storage holds and goes on as above.
DeleteInactiveHeroesAbort ==
    /\ pc = "delete_inactive_heroes"
    /\ \E args \in DeleteArgs :
          delete_inactive_heroes(CurrentTracker, now, args[1], args[2]).oob
    /\ pc' = "aborted"
    /\ op' = [name |-> "abort"]
    /\ oob_read' = TRUE
    /\ prev' = CurrentTracker
    /\ UNCHANGED <<heroes_list_, last_updated_, appearances_, hero_id_,
                   is_heroes_list_initialized_, hero_status_list, rect_num_vec,
                   now, frames, readings, calls, assigned, seen, detectVars,
                   jsVars>>

Next == TrackHero \/ DeleteInactiveHeroes \/ DeleteInactiveHeroesAbort

Spec == Init /\ [][Next]_vars

\* The composition loop alone: one frame of a fresh analyzer, its digit readings
\* drawn from all digits.
InitCompose ==
    /\ heroes_list_ = <<>>
    /\ last_updated_ = <<>>
    /\ appearances_ = <<>>
    /\ hero_id_ = 0
    /\ is_heroes_list_initialized_ = FALSE
    /\ hero_status_list = <<>>
    /\ rect_num_vec \in ReadingLists(ComposePoints, ComposeDigits, MaxDigits)
    /\ now = 0
    /\ frames = 0
    /\ readings = 0
    /\ pc = "compose"
    /\ op = [name |-> "init"]
    /\ prev = FreshTracker
    /\ calls = <<>>
    /\ assigned = {}
    /\ oob_read = FALSE
    /\ seen = <<>>
    /\ DetectIdle
    /\ JsIdle

ComposeFrame ==
    /\ pc = "compose"
    /\ TrackHeroCall(rect_num_vec, now)
    /\ pc' = "done"

NextCompose == ComposeFrame

SpecCompose == InitCompose /\ [][NextCompose]_vars

\* The tracker as constructed, outside the frame loop.
TrackIdle ==
    /\ heroes_list_ = <<>>
    /\ last_updated_ = <<>>
    /\ appearances_ = <<>>
    /\ hero_id_ = 0
    /\ is_heroes_list_initialized_ = FALSE
    /\ hero_status_list = <<>>
    /\ rect_num_vec = <<>>
    /\ now = 0
    /\ frames = 0
    /\ readings = 0
    /\ op = [name |-> "init"]
    /\ prev = FreshTracker
    /\ calls = <<>>
    /\ assigned = {}
    /\ oob_read = FALSE
    /\ seen = <<>>

\* One call of detect_number_roi on any region, sample set and threshold.
InitDetect ==
    /\ TrackIdle
    /\ JsIdle
    /\ src_roi \in Rois
    /\ number_samples \in SampleSets
    /\ avg_err_thres \in Thresholds
    /\ number_detected = NoIndex
    /\ pc = "detect_number_roi"

DetectNumberRoi ==
    /\ pc = "detect_number_roi"
    /\ number_detected' = detect_number_roi(src_roi, number_samples, avg_err_thres)
    /\ pc' = "detected"
    /\ UNCHANGED <<trackVars, jsVars, src_roi, number_samples, avg_err_thres>>

NextDetect == DetectNumberRoi

SpecDetect == InitDetect /\ [][NextDetect]_vars

\* The joystick part of the frame loop, then the statistic after the loop.
InitJoystick ==
    /\ TrackIdle
    /\ DetectIdle
    /\ JsIdle
    /\ pc = "estimate_joystick_angle"

\* One frame: HoughCircles finds a circle or none; the distance of its centre
\* from joystick_axis_ is recorded.
EstimateJoystickAngle ==
    /\ pc = "estimate_joystick_angle"
    /\ frames < MaxDistances
    /\ \E circles \in {<<>>} \cup {<<c>> : c \in CircleOffsets} :
          dist_list_' = IF circles # <<>>
                        THEN Append(dist_list_,
                                    Distance(circles[1][1], circles[1][2]))
                        ELSE dist_list_
    /\ frames' = frames + 1
    /\ UNCHANGED <<heroes_list_, last_updated_, appearances_, hero_id_,
                   is_heroes_list_initialized_, hero_status_list, rect_num_vec,
                   now, readings, pc, op, prev, calls, assigned, oob_read, seen,
                   detectVars, mean, stdvar>>

\* main, line 676, after the frame loop has ended.
EstimateJsAxisStatus ==
    /\ pc = "estimate_joystick_angle"
    /\ IF dist_list_ = <<>>
       THEN UNCHANGED <<mean, stdvar>>
       ELSE LET r == estimate_js_axis_status(dist_list_)
            IN  mean' = r.mean /\ stdvar' = r.stdvar
    /\ pc' = "estimated"
    /\ UNCHANGED <<trackVars, detectVars, dist_list_>>

NextJoystick == EstimateJoystickAngle \/ EstimateJsAxisStatus

SpecJoystick == InitJoystick /\ [][NextJoystick]_vars

----------------------------------------------------------------------------
(* Vocabulary of the properties *)

\* The entity at the 1-based index k of the tracker T, its three parts together.
Entity(T, k) ==
    [hero |-> T.heroes_list_[k], last |-> T.last_updated_[k],
     app |-> T.appearances_[k]]

Entities(T) == {Entity(T, k) : k \in DOMAIN T.heroes_list_}

\* The 1-based index of the tracked entity at minimum Euclidean distance from
\* position among those closer than 20 px (the first of them in list order), or 0.
NearestEntity(T, position) ==
    LET near == {k \in DOMAIN T.heroes_list_ :
                    DistSq(position, T.heroes_list_[k].position)
                        < DistThreshold * DistThreshold}
        best == {k \in near : \A m \in near :
                    DistSq(position, T.heroes_list_[k].position)
                        <= DistSq(position, T.heroes_list_[m].position)}
    IN  IF near = {} THEN 0 ELSE CHOOSE k \in best : \A m \in best : k <= m

\* The call c appended exactly one snapshot to the frame's hero list.
OneSnapshot(c) ==
    /\ Len(c.hsl_post) = Len(c.hsl_pre) + 1
    /\ \A n \in DOMAIN c.hsl_pre : c.hsl_post[n] = c.hsl_pre[n]

Snapshot(c) == c.hsl_post[Len(c.hsl_post)]

\* The call c merged its reading into the entity at index k.
MergedInto(c, k) ==
    /\ OneSnapshot(c)
    /\ Snapshot(c) = HeroStatus(c.pre.heroes_list_[k].hero_id, c.position, c.level)
    /\ c.post.hero_id_ = c.pre.hero_id_
    /\ Len(c.post.heroes_list_) = Len(c.pre.heroes_list_)
    /\ Len(c.post.last_updated_) = Len(c.pre.last_updated_)
    /\ Len(c.post.appearances_) = Len(c.pre.appearances_)
    /\ c.post.heroes_list_[k] =
           HeroStatus(c.pre.heroes_list_[k].hero_id, c.position, c.level)
    /\ c.post.last_updated_[k] = c.ts
    /\ c.post.appearances_[k] = c.pre.appearances_[k] + 1
    /\ \A m \in DOMAIN c.pre.heroes_list_ :
          m # k => Entity(c.post, m) = Entity(c.pre, m)

\* The call c created an entity and left every existing one as it was.
Created(c) ==
    LET n == Len(c.pre.heroes_list_) + 1
    IN  /\ OneSnapshot(c)
        /\ Snapshot(c) = HeroStatus(c.pre.hero_id_, c.position, c.level)
        /\ c.post.hero_id_ = c.pre.hero_id_ + 1
        /\ Len(c.post.heroes_list_) = n
        /\ Len(c.post.last_updated_) = n
        /\ Len(c.post.appearances_) = n
        /\ Entity(c.post, n) =
               [hero |-> HeroStatus(c.pre.hero_id_, c.position, c.level),
                last |-> c.ts, app |-> 1]
        /\ \A m \in DOMAIN c.pre.heroes_list_ : Entity(c.post, m) = Entity(c.pre, m)

\* The precondition of the merge rule for the call c and the entity at index k.
Mergeable(c, k) ==
    /\ k # 0
    /\ c.ts - c.pre.last_updated_[k] <= StaleWindow
    /\ (c.pre.heroes_list_[k].level = c.level
           \/ c.pre.heroes_list_[k].level = c.level - 1)

AllCalls == {calls[n] : n \in DOMAIN calls}

----------------------------------------------------------------------------
(* C1: after delete_inactive_heroes(ts, inactive_time, num_app) returns, no   *)
(* entity left in the tracked set has ts - lastSeen > inactive_time and       *)
(* appearanceCount < num_app.                                                 *)
C1_EvictionComplete ==
    op.name = "delete_inactive_heroes" =>
        \A k \in DOMAIN heroes_list_ :
            ~(op.ts - last_updated_[k] > op.inactive_time
                 /\ appearances_[k] < op.num_app)

CountOf(T, id) ==
    IF \E k \in DOMAIN T.heroes_list_ : T.heroes_list_[k].hero_id = id
    THEN T.appearances_[CHOOSE k \in DOMAIN T.heroes_list_ :
                            T.heroes_list_[k].hero_id = id]
    ELSE 0

\* The identities created or matched by a reading of the frame processed last.
SeenInFrame == {hero_status_list[n].hero_id : n \in DOMAIN hero_status_list}

(* C3: in one frame (one track_hero call) the appearanceCount of a tracked    *)
(* entity grows by exactly 1 if at least one reading of the frame created or  *)
(* matched it, and by 0 otherwise, however many readings resolve to it.       *)
C3_OncePerFrame ==
    op.name = "track_hero" =>
        \A id \in Ids(CurrentTracker) :
            CountOf(CurrentTracker, id) - CountOf(prev, id)
                = (IF id \in SeenInFrame THEN 1 ELSE 0)

(* C4: no two tracked entities share an identity, identities are strictly     *)
(* increasing in list order, and every newly created entity gets an identity  *)
(* strictly greater than every identity assigned before it, evicted ones      *)
(* included.                                                                  *)
C4_IdentityOrder ==
    /\ \A a, b \in DOMAIN heroes_list_ :
          a < b => heroes_list_[a].hero_id < heroes_list_[b].hero_id
    /\ \A id \in assigned \cup Ids(CurrentTracker) : id < hero_id_
    /\ op.name = "track_hero" =>
          \A c \in AllCalls :
              Len(c.post.heroes_list_) > Len(c.pre.heroes_list_) =>
                  \A id \in assigned \cup Ids(c.pre) :
                      id < c.post.heroes_list_[Len(c.post.heroes_list_)].hero_id

\* An entity was created after another was evicted, next to one that is kept.
C4_Witness ==
    /\ op.name = "track_hero"
    /\ \E c \in AllCalls :
          /\ Len(c.post.heroes_list_) > Len(c.pre.heroes_list_)
          /\ assigned \ Ids(c.pre) # {}
          /\ Ids(c.pre) # {}

(* C5: delete_inactive_heroes(ts, inactive_time, num_app) never removes an    *)
(* entity with appearanceCount >= num_app or ts - lastSeen <= inactive_time;  *)
(* it stays with identity, position, level, lastSeen and appearanceCount      *)
(* unchanged and together.                                                    *)
C5_EvictsOnlyInactive ==
    op.name = "delete_inactive_heroes" =>
        /\ Len(last_updated_) = Len(heroes_list_)
        /\ Len(appearances_) = Len(heroes_list_)
        /\ \A k \in DOMAIN prev.heroes_list_ :
              (prev.appearances_[k] >= op.num_app
                  \/ op.ts - prev.last_updated_[k] <= op.inactive_time)
              => Entity(prev, k) \in Entities(CurrentTracker)

\* An eviction that removed an entity and kept a stale one that has appearances
\* enough.
C5_Witness ==
    /\ op.name = "delete_inactive_heroes"
    /\ Len(heroes_list_) < Len(prev.heroes_list_)
    /\ \E k \in DOMAIN prev.heroes_list_ :
          /\ prev.appearances_[k] >= op.num_app
          /\ op.ts - prev.last_updated_[k] > op.inactive_time
          /\ Entity(prev, k) \in Entities(CurrentTracker)

C7_MergeOrCreate ==
    \A c \in AllCalls :
        LET k == NearestEntity(c.pre, c.position)
            merges == {m \in DOMAIN c.pre.heroes_list_ : MergedInto(c, m)}
        IN  /\ OneSnapshot(c)
            /\ (Cardinality(merges) = 1 /\ ~Created(c))
                  \/ (merges = {} /\ Created(c))
            /\ Created(c) => c.pre.hero_id_ \notin Ids(c.pre)
            /\ (k # 0 /\ (c.level < c.pre.heroes_list_[k].level
                             \/ c.level > c.pre.heroes_list_[k].level + 1))
                  => Created(c)

\* A creation next to a fresh entity whose level is more than 1 below the reading.
C7_Witness ==
    \E c \in AllCalls :
        LET k == NearestEntity(c.pre, c.position)
        IN  /\ k # 0
            /\ c.pre.is_heroes_list_initialized_
            /\ c.ts - c.pre.last_updated_[k] <= StaleWindow
            /\ c.level > c.pre.heroes_list_[k].level + 1
            /\ Created(c)

\* The two readings of rect_num_vec that the call c combined: left has the
\* smaller x, right the larger.
IsPairCall(c) == Cardinality(c.src) = 2

RightOf(c) ==
    rect_num_vec[CHOOSE a \in c.src :
                    \A b \in c.src : rect_num_vec[a].first.x >= rect_num_vec[b].first.x]

LeftOf(c) ==
    rect_num_vec[CHOOSE a \in c.src :
                    \A b \in c.src : rect_num_vec[a].first.x <= rect_num_vec[b].first.x]

(* C8 as stated: of two digit readings combined into a level, the one with    *)
(* the larger x supplies the tens digit and the other the units digit, the    *)
(* level is anchored at the reading with the larger x, and (x=10, y=5,        *)
(* digit 3) with (x=20, y=5, digit 1) compose to the single level 13 at       *)
(* (20,5).                                                                    *)
C8_RightIsTens ==
    op.name = "track_hero" =>
        /\ \A c \in AllCalls :
              IsPairCall(c) =>
                  /\ c.level = 10 * RightOf(c).second + LeftOf(c).second
                  /\ c.position = RightOf(c).first
        /\ rect_num_vec = <<Reading(Point(10, 5), 3), Reading(Point(20, 5), 1)>>
              => /\ Len(calls) = 1
                 /\ calls[1].level = 13
                 /\ calls[1].position = Point(20, 5)

(* C8 as amended: of two digit readings combined into a level, the one with   *)
(* the smaller x supplies the tens digit and the other the units digit, and   *)
(* the level is anchored at the reading with the larger x; (x=10, y=5,        *)
(* digit 1) with (x=20, y=5, digit 3) compose to the single level 13 at       *)
(* (20,5), while (x=10, y=5, digit 3) with (x=20, y=5, digit 1) make 31,      *)
(* which is rejected, and are handed on as the two levels 3 and 1.            *)
C8_LeftIsTens ==
    op.name = "track_hero" =>
        /\ \A c \in AllCalls :
              IsPairCall(c) =>
                  /\ c.level = 10 * LeftOf(c).second + RightOf(c).second
                  /\ c.position = RightOf(c).first
        /\ rect_num_vec = <<Reading(Point(10, 5), 1), Reading(Point(20, 5), 3)>>
              => /\ Len(calls) = 1
                 /\ calls[1].level = 13
                 /\ calls[1].position = Point(20, 5)
        /\ rect_num_vec = <<Reading(Point(10, 5), 3), Reading(Point(20, 5), 1)>>
              => /\ Len(calls) = 2
                 /\ calls[1].level = 3 /\ calls[1].position = Point(10, 5)
                 /\ calls[2].level = 1 /\ calls[2].position = Point(20, 5)

\* The frame (x=10, y=5, digit 1), (x=20, y=5, digit 3) has been composed.
C8_Witness ==
    /\ op.name = "track_hero"
    /\ rect_num_vec = <<Reading(Point(10, 5), 1), Reading(Point(20, 5), 3)>>
    /\ \E c \in AllCalls : IsPairCall(c) /\ c.level = 13

(* C9: a digit reading that has taken part in an accepted pair takes part in  *)
(* no further pair: each reading contributes to at most one level handed to   *)
(* assign_hero.                                                               *)
C9_PairingExclusive ==
    op.name = "track_hero" =>
        \A a, b \in DOMAIN calls : a # b => calls[a].src \cap calls[b].src = {}

(* C10: every level that the composition loop hands to assign_hero lies in    *)
(* 1..15, for digits 0..9 at any positions.                                   *)
C10_LevelInRange ==
    op.name = "track_hero" =>
        \A c \in AllCalls : c.level >= 1 /\ c.level <= MaxLevel

\* The entity at index k is stale for the call c, or its level does not allow
\* a merge of the reading.
Rejected(c, k) ==
    \/ c.ts - c.pre.last_updated_[k] > StaleWindow
    \/ c.level < c.pre.heroes_list_[k].level
    \/ c.level > c.pre.heroes_list_[k].level + 1

\* Entities closer than 20 px to the reading of the call c.
Within(c) ==
    {m \in DOMAIN c.pre.heroes_list_ :
        DistSq(c.position, c.pre.heroes_list_[m].position)
            < DistThreshold * DistThreshold}

(* C11: assign_hero decides on the single tracked entity at minimum distance  *)
(* from the reading among those strictly closer than 20 px (the earlier in    *)
(* the list on equal distances): if it is stale or its level is incompatible  *)
(* a new identity is created, also when another entity within 20 px is fresh  *)
(* and matches; if no entity is closer than 20 px a new identity is created;  *)
(* a reading is never merged into any other entity.                           *)
C11_NearestOnly ==
    \A c \in AllCalls :
        LET k == NearestEntity(c.pre, c.position)
        IN  /\ k = 0 => Created(c)
            /\ (k # 0 /\ Rejected(c, k)) => Created(c)
            /\ \A m \in DOMAIN c.pre.heroes_list_ : MergedInto(c, m) => m = k
            /\ (k # 0 /\ ~Rejected(c, k) /\ c.pre.is_heroes_list_initialized_)
                  => MergedInto(c, k)

\* A reading at equal distance from two entities of which only the later in the
\* list allows a merge: a new identity is created.
C11_Witness ==
    \E c \in AllCalls :
        LET k == NearestEntity(c.pre, c.position)
        IN  /\ k # 0
            /\ c.pre.is_heroes_list_initialized_
            /\ Rejected(c, k)
            /\ \E m \in Within(c) :
                  /\ m > k
                  /\ DistSq(c.position, c.pre.heroes_list_[m].position)
                        = DistSq(c.position, c.pre.heroes_list_[k].position)
                  /\ ~Rejected(c, m)
            /\ Created(c)

\* A reading exactly 20 px from the only entity, which would allow a merge.
C11_WitnessAtThreshold ==
    \E c \in AllCalls :
        /\ c.pre.is_heroes_list_initialized_
        /\ Within(c) = {}
        /\ \E m \in DOMAIN c.pre.heroes_list_ :
              /\ DistSq(c.position, c.pre.heroes_list_[m].position)
                    = DistThreshold * DistThreshold
              /\ ~Rejected(c, m)
        /\ Created(c)

\* lastSeen of the identity id in the tracker T (id is tracked by T).
LastOf(T, id) ==
    T.last_updated_[CHOOSE k \in DOMAIN T.heroes_list_ :
                        T.heroes_list_[k].hero_id = id]

(* C13: with frames processed in non-decreasing timestamp order, every update *)
(* of an entity's last_updated_ by assign_hero sets it to a value >= its      *)
(* previous value, and delete_inactive_heroes does not change the lastSeen of *)
(* an entity it keeps.                                                        *)
C13_LastSeenMonotonic ==
    /\ \A c \in AllCalls :
          \A m \in DOMAIN c.pre.last_updated_ :
              c.post.last_updated_[m] >= c.pre.last_updated_[m]
    /\ op.name = "track_hero" =>
          \A id \in Ids(prev) \cap Ids(CurrentTracker) :
              LastOf(CurrentTracker, id) >= LastOf(prev, id)
    /\ op.name = "delete_inactive_heroes" =>
          \A id \in Ids(CurrentTracker) :
              id \in Ids(prev) /\ LastOf(CurrentTracker, id) = LastOf(prev, id)

\* An eviction that kept an entity behind the one it removed, after a frame that
\* moved the lastSeen of an entity forward.
C13_Witness ==
    /\ op.name = "delete_inactive_heroes"
    /\ \E c \in AllCalls : \E m \in DOMAIN c.pre.last_updated_ :
          c.post.last_updated_[m] > c.pre.last_updated_[m]
    /\ \E a, b \in DOMAIN prev.heroes_list_ :
          /\ a < b
          /\ prev.heroes_list_[a].hero_id \notin Ids(CurrentTracker)
          /\ prev.heroes_list_[b].hero_id \in Ids(CurrentTracker)

(* C15: delete_inactive_heroes never reads heroes_list_, last_updated_ or     *)
(* appearances_ at an index that is not below the list's current length, also *)
(* right after an element has been erased.                                    *)
C15_NoReadPastEnd == ~oob_read

(* C16: heroes_list_, last_updated_ and appearances_ have the same length,    *)
(* and index i of all three describes the same entity: last_updated_[i] and   *)
(* appearances_[i] are the timestamp of the last frame that reported the      *)
(* identity heroes_list_[i].hero_id and the number of times it was reported.  *)
C16_ListsAligned ==
    /\ Len(last_updated_) = Len(heroes_list_)
    /\ Len(appearances_) = Len(heroes_list_)
    /\ \A i \in DOMAIN heroes_list_ :
          /\ heroes_list_[i].hero_id \in DOMAIN seen
          /\ last_updated_[i] = seen[heroes_list_[i].hero_id].last
          /\ appearances_[i] = seen[heroes_list_[i].hero_id].app

\* An eviction of the first entity: the entity behind it moves to index 1 and
\* differs from the evicted one in lastSeen and appearanceCount.
C16_Witness ==
    /\ op.name = "delete_inactive_heroes"
    /\ Len(prev.heroes_list_) = 2
    /\ Len(heroes_list_) = 1
    /\ heroes_list_[1] = prev.heroes_list_[2]
    /\ prev.last_updated_[1] # prev.last_updated_[2]
    /\ prev.appearances_[1] # prev.appearances_[2]
    /\ last_updated_[1] = prev.last_updated_[2]
    /\ appearances_[1] = prev.appearances_[2]

\* The samples that pass the h/w ratio test against the region, and the score
\* of the region against the sample i.
Eligible == {i \in 0..(NumSamples - 1) : ~RatioRejected(src_roi, number_samples[i])}

Score(i) ==
    AvgErr(Resize(src_roi, number_samples[i].rows, number_samples[i].cols),
           number_samples[i])

\* The lowest index among the eligible samples of minimal score.
Best ==
    CHOOSE i \in Eligible :
        /\ \A j \in Eligible : ~Less(Score(j), Score(i))
        /\ \A j \in Eligible : j < i => Less(Score(i), Score(j))

(* C12: detect_number_roi returns the lowest index among the samples of       *)
(* minimal pixel-disagreement score (samples failing the h/w ratio test       *)
(* excluded) if and only if that score is strictly below the threshold, and   *)
(* -1 otherwise; the result is a function of region, samples and threshold.   *)
C12_LowestMinimalBelowThreshold ==
    pc = "detected" =>
        /\ number_detected = detect_number_roi(src_roi, number_samples, avg_err_thres)
        /\ IF Eligible # {} /\ Less(Score(Best), avg_err_thres)
           THEN number_detected = Best
           ELSE number_detected = NoIndex

\* Two eligible samples tie at the minimal score, below the threshold, behind a
\* sample that fails the ratio test; the lower of the two is returned.
C12_Witness ==
    /\ pc = "detected"
    /\ \E i, j \in Eligible :
          /\ i < j
          /\ i = Best
          /\ Score(i) = Score(j)
          /\ Score(i).num > 0
          /\ \E e \in 0..(NumSamples - 1) : e < i /\ e \notin Eligible
          /\ number_detected = i

\* The minimal score equals the threshold: no match.
C12_WitnessAtThreshold ==
    /\ pc = "detected"
    /\ Eligible # {}
    /\ ~Less(Score(Best), avg_err_thres)
    /\ ~Less(avg_err_thres, Score(Best))
    /\ number_detected = NoIndex

(* C14: for every non-empty list of recorded distances estimate_js_axis_status *)
(* yields the exact arithmetic mean of the distances and the standard          *)
(* deviation about that mean with divisor n - 1, whatever the order of the     *)
(* list; for <<3, 4, 5>> the mean is 4 and the standard deviation 1.           *)
C14_ExactMeanAndDeviation ==
    (pc = "estimated" /\ dist_list_ # <<>>) =>
        LET n == Len(dist_list_)
            total == SumExact(dist_list_, 1, 0)
        IN  /\ mean.set
            /\ mean.num * Scale * n = total * mean.den
            /\ n > 1 =>
                  /\ stdvar.den = Scale * Scale * n * n * (n - 1)
                  /\ stdvar.num * Scale * Scale
                        = ErrSum([i \in 1..n |-> Scale * dist_list_[i]], 1, total, 0)
            /\ dist_list_ = <<3 * Scale, 4 * Scale, 5 * Scale>> =>
                  /\ mean.num = 4 * mean.den
                  /\ stdvar.num = stdvar.den

\* The statistic of <<3, 4, 5>> has been computed.
C14_WholeNumbers ==
    /\ pc = "estimated"
    /\ dist_list_ = <<3 * Scale, 4 * Scale, 5 * Scale>>
    /\ mean.num = 4 * mean.den
    /\ stdvar.num = stdvar.den

====
